---- MODULE Spec2Model ----
(***************************************************************************)
(* lines2pmtiles: GeoJSON line-strings -> vector tiles in a PMTiles        *)
(* archive.  The model follows src/src/lib.rs (geojson_to_pmtiles,        *)
(* load_features, make_tile) and src/src/math.rs (BBox, lon_lat_to_tile,   *)
(* wgs84_to_web_mercator).                                                 *)
(*                                                                         *)
(* Coordinates.  f64 coordinates are modelled on an integer grid.  One     *)
(* longitude unit is 22.5 degrees, so lon = -8 .. 8 is -180 .. 180         *)
(* degrees.  Latitude is measured on the Mercator-linearised axis (the     *)
(* value of asinh(tan(lat)) scaled so that +-8 is the projection limit     *)
(* +-85.05 degrees); +-9 stands for a latitude beyond it.  In these units  *)
(* both the slippy-tile formula and the web-mercator projection are linear *)
(* up to the clamp / saturating cast, which are modelled as the code has   *)
(* them.                                                                   *)
(***************************************************************************)
EXTENDS Integers, Sequences, FiniteSets, TLC

VARIABLES
    input,              \* the feature records handed to geojson_to_pmtiles
    options,            \* Options {sort_by_key, zoom_levels, limit_size_bytes}
    pc,                 \* position in geojson_to_pmtiles
    outcome,            \* "running" | "ok" | "err" | "panic"
    r_tree,             \* the bulk-loaded RTree, as its traversal order
    bbox,               \* BBox accumulated by load_features
    tiles_to_calculate, \* Vec<TileId> built by the planner loop
    results,            \* per planned tile: the parallel closure's result
    progress,           \* the shared MultiProgress sink
    pmtiles             \* the archive: header zooms and add_tile calls

vars == <<input, options, pc, outcome, r_tree, bbox, tiles_to_calculate,
          results, progress, pmtiles>>

----------------------------------------------------------------------------
(* Bounds and program constants *)

\* Largest number of feature records in the input.
MaxFeatures == 3

\* math.rs MAXEXTENT (20037508.342789244 m), in grid units.
MAXEXTENT == 8

\* f64::MAX as used by BBox::empty, in grid units (any value far outside the
\* world; only its sign and size relative to the world matter).
F64_MAX == 1000000

Pow2(n) == 2 ^ n

Min(a, b) == IF a < b THEN a ELSE b
Max(a, b) == IF a > b THEN a ELSE b

----------------------------------------------------------------------------
(* Input values *)

NoGeometry == [kind |-> "None", coords |-> <<>>]
LineString(c) == [kind |-> "LineString", coords |-> c]
Point(c) == [kind |-> "Point", coords |-> <<c>>]

\* A JSON number n/2 (twice = n), a JSON string, or the key being absent.
Number(twice) == [t |-> "number", twice |-> twice]
String == [t |-> "string", twice |-> 0]
Absent == [t |-> "absent", twice |-> 0]

NoProperties == [some |-> FALSE, count |-> Absent]
Properties(v) == [some |-> TRUE, count |-> v]

Feature(g, p) == [geometry |-> g, properties |-> p]

\* The feature records inputs are drawn from.
Catalog == <<
    \* 1: two vertices inside one tile at every zoom, count 1.0
    Feature(LineString(<<<<1, 5>>, <<3, 5>>>>), Properties(Number(2))),
    \* 2: three vertices, count 1.0
    Feature(LineString(<<<<1, 5>>, <<2, 5>>, <<3, 5>>>>), Properties(Number(2))),
    \* 3: first vertex on the lon = 0 tile border, count 0.5
    Feature(LineString(<<<<0, 5>>, <<1, 5>>>>), Properties(Number(1))),
    \* 4: crosses the zoom-2 tile x = 1 with no vertex in it, count -1.0
    Feature(LineString(<<<<-5, 5>>, <<1, 5>>>>), Properties(Number(-2))),
    \* 5: not a line-string, non-numeric count
    Feature(Point(<<0, 5>>), Properties(String)),
    \* 6: a record without geometry
    Feature(NoGeometry, Properties(Number(2))),
    \* 7: reaches longitude 180
    Feature(LineString(<<<<7, 5>>, <<8, 5>>>>), NoProperties),
    \* 8: reaches a latitude south of the projection limit
    Feature(LineString(<<<<1, -9>>, <<1, 5>>>>), Properties(Number(2))),
    \* 9: reaches a latitude north of the projection limit, no properties
    Feature(LineString(<<<<1, 5>>, <<1, 9>>>>), NoProperties)
>>

\* Inputs: 1 .. MaxFeatures different catalog entries, listed in catalog
\* order; the order the index returns them in is chosen at bulk load.
Inputs ==
    UNION {{s \in [1..n -> 1..Len(Catalog)] :
                \A k \in 1..(n - 1) : s[k] < s[k + 1]} : n \in 1..MaxFeatures}

ZoomChoices == {<<0>>, <<2>>, <<0, 1>>, <<0, 0>>}

\* limit_size_bytes: None, or a budget in encoded-geometry length units.
NoLimit == [some |-> FALSE, v |-> 0]
Limit(n) == [some |-> TRUE, v |-> n]
LimitChoices == {NoLimit, Limit(7), Limit(14)}

OptionChoices ==
    [sort_by_key : BOOLEAN, zoom_levels : ZoomChoices,
     limit_size_bytes : LimitChoices]

----------------------------------------------------------------------------
(* math.rs *)

Clamp(v, lo, hi) == Min(Max(v, lo), hi)

\* wgs84_to_web_mercator: both axes clamped to +-MAXEXTENT.
wgs84_to_web_mercator(c) ==
    <<Clamp(c[1], -MAXEXTENT, MAXEXTENT), Clamp(c[2], -MAXEXTENT, MAXEXTENT)>>

BBox_empty ==
    [min_lon |-> F64_MAX, max_lon |-> -F64_MAX,
     min_lat |-> F64_MAX, max_lat |-> -F64_MAX]

RECURSIVE AddPoints(_, _, _)
AddPoints(b, coords, k) ==
    IF k > Len(coords) THEN b
    ELSE AddPoints([min_lon |-> Min(b.min_lon, coords[k][1]),
                    min_lat |-> Min(b.min_lat, coords[k][2]),
                    max_lon |-> Max(b.max_lon, coords[k][1]),
                    max_lat |-> Max(b.max_lat, coords[k][2])], coords, k + 1)

\* BBox::add: only a LineString geometry contributes.
BBox_add(b, f) ==
    IF f.geometry.kind = "LineString" THEN AddPoints(b, f.geometry.coords, 1)
    ELSE b

\* `as u32` on an f64: a negative value saturates to 0.  (The upper
\* saturation at u32::MAX is only reached from the empty box, where the value
\* is far above every tile index either way.)
AsU32(v) == IF v < 0 THEN 0 ELSE v

\* lon_lat_to_tile: floor(normalised * 2^zoom) as u32, with
\* x normalised = (lon + MAXEXTENT) / (2 * MAXEXTENT) and
\* y normalised = (MAXEXTENT - lat) / (2 * MAXEXTENT).
lon_lat_to_tile(lon, lat, zoom) ==
    <<AsU32(((lon + MAXEXTENT) * Pow2(zoom)) \div (2 * MAXEXTENT)),
      AsU32(((MAXEXTENT - lat) * Pow2(zoom)) \div (2 * MAXEXTENT))>>

\* BBox::to_tiles: (x1, min(y1, y2), x2, max(y2, y1)).
to_tiles(b, zoom) ==
    LET p1 == lon_lat_to_tile(b.min_lon, b.min_lat, zoom)
        p2 == lon_lat_to_tile(b.max_lon, b.max_lat, zoom)
    IN  [x1 |-> p1[1], y1 |-> Min(p1[2], p2[2]),
         x2 |-> p2[1], y2 |-> Max(p2[2], p1[2])]

----------------------------------------------------------------------------
(* lib.rs: loading *)

\* From<geojson::Feature> for TreeFeature: reproject every coordinate.  idx is
\* the record's position in the input, kept to tell features apart.
TreeFeature(f, idx) ==
    [idx |-> idx,
     geometry |-> [kind |-> f.geometry.kind,
                   coords |-> [k \in 1..Len(f.geometry.coords) |->
                                  wgs84_to_web_mercator(f.geometry.coords[k])]],
     properties |-> f.properties]

\* load_features' loop.  `feature.geometry.unwrap()` in the conversion panics
\* on a record without geometry: the function then returns nothing at all.
RECURSIVE LoadLoop(_, _, _, _)
LoadLoop(fs, k, b, tree_features) ==
    IF k > Len(fs) THEN
        [panicked |-> FALSE, bbox |-> b, tree_features |-> tree_features]
    ELSE IF fs[k].geometry.kind = "None" THEN
        [panicked |-> TRUE, bbox |-> BBox_empty, tree_features |-> <<>>]
    ELSE LoadLoop(fs, k + 1, BBox_add(b, fs[k]),
                  Append(tree_features, TreeFeature(fs[k], k)))

load_features(fs) == LoadLoop(fs, 1, BBox_empty, <<>>)

----------------------------------------------------------------------------
(* lib.rs: the spatial index *)

\* RTree::bulk_load arranges the features in buckets; the order in which a
\* query walks them is fixed by the tree but is not the input order.
\* Arrange(fs, perm) is the traversal order for one arrangement.
Arrange(fs, perm) == [k \in 1..Len(fs) |-> fs[perm[k]]]

RECURSIVE FoldMin(_, _, _, _)
FoldMin(coords, axis, k, acc) ==
    IF k > Len(coords) THEN acc
    ELSE FoldMin(coords, axis, k + 1, Min(acc, coords[k][axis]))

RECURSIVE FoldMax(_, _, _, _)
FoldMax(coords, axis, k, acc) ==
    IF k > Len(coords) THEN acc
    ELSE FoldMax(coords, axis, k + 1, Max(acc, coords[k][axis]))

\* RTreeObject::envelope: the geometry's bounding rectangle (every geometry
\* of the catalog has at least one coordinate, so bounding_rect is Some).
envelope(f) ==
    LET c == f.geometry.coords
    IN  [min_x |-> FoldMin(c, 1, 2, c[1][1]), max_x |-> FoldMax(c, 1, 2, c[1][1]),
         min_y |-> FoldMin(c, 2, 2, c[1][2]), max_y |-> FoldMax(c, 2, 2, c[1][2])]

TileId(x, y, z) == [x |-> x, y |-> y, z |-> z]

\* MapGrid::tile_bbox, scaled by 2^z to stay in integers: the tile spans
\* 2 * MAXEXTENT / 2^z on both axes, y = 0 being the northernmost row.
tile_bbox(t) ==
    [x_min |-> 2 * MAXEXTENT * t.x - MAXEXTENT * Pow2(t.z),
     x_max |-> 2 * MAXEXTENT * (t.x + 1) - MAXEXTENT * Pow2(t.z),
     y_min |-> MAXEXTENT * Pow2(t.z) - 2 * MAXEXTENT * (t.y + 1),
     y_max |-> MAXEXTENT * Pow2(t.z) - 2 * MAXEXTENT * t.y]

\* AABB intersection of a feature's envelope with the tile rectangle.
Intersects(f, t) ==
    LET e == envelope(f)
        b == tile_bbox(t)
        s == Pow2(t.z)
    IN  /\ e.min_x * s <= b.x_max /\ e.max_x * s >= b.x_min
        /\ e.min_y * s <= b.y_max /\ e.max_y * s >= b.y_min

\* r_tree.locate_in_envelope_intersecting(tile rectangle).collect()
locate_in_envelope_intersecting(tree, t) ==
    SelectSeq(tree, LAMBDA f : Intersects(f, t))

----------------------------------------------------------------------------
(* lib.rs: make_tile *)

\* f64::round (half away from zero) of the value twice / 2.
Round(twice) ==
    IF twice >= 0 THEN (twice + 1) \div 2 ELSE -((1 - twice) \div 2)

None == [some |-> FALSE, v |-> 0]
Some(v) == [some |-> TRUE, v |-> v]

\* TreeFeature::get_sort_key: None without properties, without the key or
\* for a non-number; else round() as usize (a negative value saturates to 0).
get_sort_key(f) ==
    IF ~f.properties.some THEN None
    ELSE IF f.properties.count.t = "absent" THEN None
    ELSE IF f.properties.count.t # "number" THEN None
    ELSE Some(Max(Round(f.properties.count.twice), 0))

unwrap_or(o, d) == IF o.some THEN o.v ELSE d

SortKey(f) == unwrap_or(get_sort_key(f), 0)

\* Insertion into an ascending sequence after every element with a key that
\* is not larger: a stable sort, as sort_by_key is.
RECURSIVE InsertStable(_, _, _)
InsertStable(sorted, f, k) ==
    IF k > Len(sorted) THEN Append(sorted, f)
    ELSE IF SortKey(sorted[k]) > SortKey(f)
         THEN SubSeq(sorted, 1, k - 1) \o <<f>> \o SubSeq(sorted, k, Len(sorted))
         ELSE InsertStable(sorted, f, k + 1)

RECURSIVE sort_by_key(_, _, _)
sort_by_key(fs, k, acc) ==
    IF k > Len(fs) THEN acc
    ELSE sort_by_key(fs, k + 1, InsertStable(acc, fs[k], 1))

reverse(s) == [k \in 1..Len(s) |-> s[Len(s) + 1 - k]]

RECURSIVE InsertDescending(_, _, _)
InsertDescending(sorted, f, k) ==
    IF k > Len(sorted) THEN Append(sorted, f)
    ELSE IF SortKey(sorted[k]) < SortKey(f)
         THEN SubSeq(sorted, 1, k - 1) \o <<f>> \o SubSeq(sorted, k, Len(sorted))
         ELSE InsertDescending(sorted, f, k + 1)

RECURSIVE SortDescending(_, _, _)
SortDescending(fs, k, acc) ==
    IF k > Len(fs) THEN acc
    ELSE SortDescending(fs, k + 1, InsertDescending(acc, fs[k], 1))

\* Variant: a stable descending sort in place of sort-then-reverse (ties keep
\* the query order).
PriorityOrderStableDescending(features, opts) ==
    IF opts.sort_by_key THEN SortDescending(features, 1, <<>>)
    ELSE features

\* lines 185-188: sort ascending by key, then reverse, when a key is set.
PriorityOrder(features, opts) ==
    IF opts.sort_by_key THEN reverse(sort_by_key(features, 1, <<>>))
    ELSE features

\* lines 209-219: the vertex's tile-local coordinate is (nx, ny) / (2 *
\* MAXEXTENT); it is inside when both lie in [0, 1].
VertexInside(pt, t) ==
    LET nx == (pt[1] + MAXEXTENT) * Pow2(t.z) - 2 * MAXEXTENT * t.x
        ny == (MAXEXTENT - pt[2]) * Pow2(t.z) - 2 * MAXEXTENT * t.y
    IN  /\ nx >= 0 /\ nx <= 2 * MAXEXTENT
        /\ ny >= 0 /\ ny <= 2 * MAXEXTENT

\* Variant: keep whatever the index returned (an envelope test, any kind).
IncludeTestEnvelope(f, t) == Intersects(f, t)

\* lines 202-225: `any` is set only for a LineString with a vertex inside.
IncludeTest(f, t) ==
    /\ f.geometry.kind = "LineString"
    /\ \E k \in 1..Len(f.geometry.coords) : VertexInside(f.geometry.coords[k], t)

\* b.encode() then encoded.len(): a MoveTo and a LineTo command word plus
\* two parameters per vertex.
EncodedLen(f) == 2 * Len(f.geometry.coords) + 2

\* Variant: the limit is never applied.
OverBudgetNever(bytes_so_far, opts) == FALSE

\* lines 239-245: the budget test on the running total.
OverBudget(bytes_so_far, opts) ==
    opts.limit_size_bytes.some /\ bytes_so_far > opts.limit_size_bytes.v

\* Variant: the feature that exceeds the budget is written to the layer
\* before the loop stops.
RECURSIVE TileLoopKeepTrigger(_, _, _, _, _, _)
TileLoopKeepTrigger(features, k, t, opts, layer, bytes_so_far) ==
    IF k > Len(features) THEN
        [layer |-> layer, skipped |-> FALSE, pos |-> k - 1]
    ELSE IF ~IncludeTest(features[k], t) THEN
        TileLoopKeepTrigger(features, k + 1, t, opts, layer, bytes_so_far)
    ELSE IF OverBudget(bytes_so_far + EncodedLen(features[k]), opts) THEN
        [layer |-> Append(layer, features[k].idx), skipped |-> TRUE, pos |-> k]
    ELSE TileLoopKeepTrigger(features, k + 1, t, opts,
                             Append(layer, features[k].idx),
                             bytes_so_far + EncodedLen(features[k]))

\* lines 198-279: the loop over the candidates.  pos counts progress.inc(1).
RECURSIVE TileLoop(_, _, _, _, _, _)
TileLoop(features, k, t, opts, layer, bytes_so_far) ==
    IF k > Len(features) THEN
        [layer |-> layer, skipped |-> FALSE, pos |-> k - 1]
    ELSE IF ~IncludeTest(features[k], t) THEN
        TileLoop(features, k + 1, t, opts, layer, bytes_so_far)
    ELSE IF OverBudget(bytes_so_far + EncodedLen(features[k]), opts) THEN
        [layer |-> layer, skipped |-> TRUE, pos |-> k]
    ELSE TileLoop(features, k + 1, t, opts, Append(layer, features[k].idx),
                  bytes_so_far + EncodedLen(features[k]))

NoTile == [some |-> FALSE, id |-> TileId(0, 0, 0), layer |-> <<>>, skipped |-> FALSE]

\* Variant: the tile is returned even when its layer is empty.
FinalizeAlways(t, layer, skipped) ==
    [some |-> TRUE, id |-> t, layer |-> layer, skipped |-> skipped]

\* lines 281-302: no tile when the layer is empty.
Finalize(t, layer, skipped) ==
    IF Len(layer) = 0 THEN NoTile
    ELSE [some |-> TRUE, id |-> t, layer |-> layer, skipped |-> skipped]

\* make_tile: the Option<(TileId, Tile)> it returns and where its progress
\* bar stands.
make_tile(current_tile_id, features, opts) ==
    LET r == TileLoop(PriorityOrder(features, opts), 1, current_tile_id, opts,
                      <<>>, 0)
    IN  [state |-> "built",
         tile |-> Finalize(current_tile_id, r.layer, r.skipped),
         pos |-> r.pos]

----------------------------------------------------------------------------
(* lib.rs: the planner loop of geojson_to_pmtiles *)

\* Variant: an off-by-one range check.
TileIdValidInclusive(x, y, z) == x <= Pow2(z) /\ y <= Pow2(z)

\* TileId::new(x, y, z)? succeeds only for x, y < 2^z.
TileIdValid(x, y, z) == x < Pow2(z) /\ y < Pow2(z)

\* for x in x1..=x2 { for y in y1..=y2 { .. } } at one zoom, in loop order.
ZoomTriples(b, z) ==
    LET r == to_tiles(b, z)
        nx == Max(r.x2 - r.x1 + 1, 0)
        ny == Max(r.y2 - r.y1 + 1, 0)
    IN  [k \in 1..(nx * ny) |->
            TileId(r.x1 + ((k - 1) \div ny), r.y1 + ((k - 1) % ny), z)]

RECURSIVE AllTriples(_, _, _)
AllTriples(b, zoom_levels, k) ==
    IF k > Len(zoom_levels) THEN <<>>
    ELSE ZoomTriples(b, zoom_levels[k]) \o AllTriples(b, zoom_levels, k + 1)

\* The pushes of lines 66-74: the loop returns the error of the first
\* TileId::new that fails.
RECURSIVE PlanLoop(_, _, _)
PlanLoop(triples, k, acc) ==
    IF k > Len(triples) THEN [failed |-> FALSE, tiles |-> acc]
    ELSE IF ~TileIdValid(triples[k].x, triples[k].y, triples[k].z)
         THEN [failed |-> TRUE, tiles |-> acc]
         ELSE PlanLoop(triples, k + 1, Append(acc, triples[k]))

PlanTiles(b, zoom_levels) == PlanLoop(AllTriples(b, zoom_levels, 1), 1, <<>>)

\* Variant: an identifier that forgets the zoom.
tile_id_without_zoom(z, x, y) == <<0, x, y>>

\* pmtiles2::util::tile_id(z, x, y): one identifier per triple.
get_tile_id(z, x, y) == <<z, x, y>>

\* flat_map over the Option results, collected in the order of
\* tiles_to_calculate: a None contributes nothing.
Collect(res) ==
    LET built == SelectSeq(res, LAMBDA r : r.tile.some)
    IN  [k \in 1..Len(built) |-> built[k].tile]

\* lines 98-103: one add_tile call per collected tile.
AddTiles(tiles) ==
    [k \in 1..Len(tiles) |->
        [id |-> get_tile_id(tiles[k].id.z, tiles[k].id.x, tiles[k].id.y),
         layer |-> tiles[k].layer, skipped |-> tiles[k].skipped]]

----------------------------------------------------------------------------
(* The state machine *)

NoArchive == [created |-> FALSE, min_zoom |-> 0, max_zoom |-> 0, tiles |-> <<>>]

PendingResult == [state |-> "pending", tile |-> NoTile, pos |-> 0]

Init ==
    /\ input \in {[k \in 1..Len(s) |-> Catalog[s[k]]] : s \in Inputs}
    /\ options \in OptionChoices
    /\ pc = "load"
    /\ outcome = "running"
    /\ r_tree = <<>>
    /\ bbox = BBox_empty
    /\ tiles_to_calculate = <<>>
    /\ results = <<>>
    /\ progress = [bars |-> 0, count |-> 0]
    /\ pmtiles = NoArchive

\* lines 33-34: load_features; a record without geometry panics.
Load ==
    /\ pc = "load"
    /\ LET r == load_features(input)
       IN  IF r.panicked
           THEN /\ pc' = "aborted"
                /\ outcome' = "panic"
                /\ UNCHANGED <<r_tree, bbox>>
           ELSE /\ \E perm \in Permutations(1..Len(r.tree_features)) :
                       r_tree' = Arrange(r.tree_features, perm)
                /\ bbox' = r.bbox
                /\ pc' = "plan"
                /\ UNCHANGED outcome
    /\ UNCHANGED <<input, options, tiles_to_calculate, results, progress, pmtiles>>

\* lines 42-74: the archive header, then the planner loop.
Plan ==
    /\ pc = "plan"
    /\ LET p == PlanTiles(bbox, options.zoom_levels)
       IN  /\ tiles_to_calculate' = p.tiles
           /\ IF p.failed
              THEN /\ pc' = "aborted"
                   /\ outcome' = "err"
                   /\ pmtiles' = NoArchive
                   /\ UNCHANGED results
              ELSE /\ pc' = "build"
                   /\ pmtiles' = [created |-> TRUE,
                                  min_zoom |-> options.zoom_levels[1],
                                  max_zoom |-> options.zoom_levels[Len(options.zoom_levels)],
                                  tiles |-> <<>>]
                   /\ results' = [k \in 1..Len(p.tiles) |-> PendingResult]
                   /\ UNCHANGED outcome
    /\ UNCHANGED <<input, options, r_tree, bbox, progress>>

\* lines 77-95: the closure run for one planned tile, on any worker, in any
\* order relative to the other tiles.
BuildTile(i) ==
    /\ pc = "build"
    /\ results[i].state = "pending"
    /\ LET tile_id == tiles_to_calculate[i]
           r == make_tile(tile_id,
                          locate_in_envelope_intersecting(r_tree, tile_id),
                          options)
       IN  /\ results' = [results EXCEPT ![i] = r]
           /\ progress' = [bars |-> progress.bars + 1,
                           count |-> progress.count + r.pos]
    /\ UNCHANGED <<input, options, pc, outcome, r_tree, bbox,
                   tiles_to_calculate, pmtiles>>

\* Variant: assembly that does not wait for the closures still running.
AssembleWithoutJoin ==
    /\ pc = "build"
    /\ pmtiles' = [pmtiles EXCEPT !.tiles = AddTiles(Collect(results))]
    /\ pc' = "done"
    /\ outcome' = "ok"
    /\ UNCHANGED <<input, options, r_tree, bbox, tiles_to_calculate, results,
                   progress>>

\* lines 95-104: collect() once every closure has returned, then add_tile.
Assemble ==
    /\ pc = "build"
    /\ \A i \in 1..Len(results) : results[i].state = "built"
    /\ pmtiles' = [pmtiles EXCEPT !.tiles = AddTiles(Collect(results))]
    /\ pc' = "done"
    /\ outcome' = "ok"
    /\ UNCHANGED <<input, options, r_tree, bbox, tiles_to_calculate, results,
                   progress>>

Next ==
    \/ Load
    \/ Plan
    \/ \E i \in 1..Len(results) : BuildTile(i)
    \/ Assemble

Spec == Init /\ [][Next]_vars

----------------------------------------------------------------------------
(* Properties *)

Elems(s) == {s[k] : k \in 1..Len(s)}

NoDuplicates(s) == \A a, b \in 1..Len(s) : a # b => s[a] # s[b]

\* The planned tiles whose closure has returned.
BuiltTiles ==
    {i \in 1..Len(results) : pc \in {"build", "done"} /\ results[i].state = "built"}

\* What the closure for tile i got from the index, and the order make_tile
\* walks it in.
Candidates(i) == locate_in_envelope_intersecting(r_tree, tiles_to_calculate[i])
Ordered(i) == PriorityOrder(Candidates(i), options)

\* The candidates of tile i that pass the inclusion test, in walking order.
Included(i) ==
    SelectSeq(Ordered(i), LAMBDA f : IncludeTest(f, tiles_to_calculate[i]))

FeatureOf(idx) == CHOOSE f \in Elems(r_tree) : f.idx = idx

PositionIn(s, idx) == CHOOSE k \in 1..Len(s) : s[k].idx = idx

RECURSIVE TotalLen(_, _)
TotalLen(fs, n) == IF n = 0 THEN 0 ELSE TotalLen(fs, n - 1) + EncodedLen(fs[n])

\* The first n features of inc (the included features of a tile) stay at or
\* below the budget and the next one pushes the running total above it.
BudgetBoundary(inc, n) ==
    /\ options.limit_size_bytes.some
    /\ n + 1 <= Len(inc)
    /\ TotalLen(inc, n) <= options.limit_size_bytes.v
    /\ TotalLen(inc, n + 1) > options.limit_size_bytes.v

Layer(i) == results[i].tile.layer

\* C1 as stated: at a budget boundary after N features (N >= 1 features
\* fit) the tile retains exactly N + 1 features (the triggering one too), is
\* marked truncated, and no later candidate is processed.
C1_TriggerKept ==
    \A i \in BuiltTiles :
        LET inc == Included(i)
        IN  \A n \in 1..Len(inc) :
                BudgetBoundary(inc, n) =>
                    /\ Len(Layer(i)) = n + 1
                    /\ results[i].tile.skipped
                    /\ results[i].pos = PositionIn(Ordered(i), inc[n + 1].idx)

\* C1 amended: at a budget boundary after N features the layer holds exactly
\* the first N included features and not the triggering one; for N >= 1 the
\* tile is returned marked truncated, for N = 0 no tile is returned; the loop
\* stops at the triggering feature.
C1_TriggerDropped ==
    \A i \in BuiltTiles :
        LET inc == Included(i)
        IN  \A n \in 0..Len(inc) :
                BudgetBoundary(inc, n) =>
                    /\ Layer(i) = [k \in 1..n |-> inc[k].idx]
                    /\ (n >= 1 => results[i].tile.some /\ results[i].tile.skipped)
                    /\ (n = 0 => ~results[i].tile.some)
                    /\ results[i].pos = PositionIn(Ordered(i), inc[n + 1].idx)

\* A built tile at a budget boundary with N >= 1 and a candidate after the
\* triggering one.
C1_Witness ==
    \E i \in BuiltTiles : \E n \in 1..Len(Included(i)) :
        /\ BudgetBoundary(Included(i), n)
        /\ results[i].pos < Len(Ordered(i))

\* The attribute's numeric value in halves; missing or non-numeric is 0.
NumericTwice(f) ==
    IF f.properties.some /\ f.properties.count.t = "number"
    THEN f.properties.count.twice ELSE 0

\* s lists features by descending rank (rank[k] being the rank of s[k]),
\* ties in the reverse of their order in cands (the query result).
DescendingReverseTies(cands, s, rank) ==
    \A a, b \in 1..Len(s) :
        a < b =>
            /\ rank[a] >= rank[b]
            /\ rank[a] = rank[b] =>
                   PositionIn(cands, s[a].idx) > PositionIn(cands, s[b].idx)

Values(s) == [k \in 1..Len(s) |-> NumericTwice(s[k])]
Keys(s) == [k \in 1..Len(s) |-> SortKey(s[k])]

RetainedFeatures(i) == [k \in 1..Len(Layer(i)) |-> FeatureOf(Layer(i)[k])]

HasVertexInside(f, t) ==
    \E k \in 1..Len(f.geometry.coords) : VertexInside(f.geometry.coords[k], t)

CrossesWithoutVertex(f, t) ==
    /\ f.geometry.kind = "LineString"
    /\ Len(f.geometry.coords) = 2
    /\ f.geometry.coords[1][2] = f.geometry.coords[2][2]
    /\ Intersects(f, t)
    /\ ~HasVertexInside(f, t)

C4_PlannerCoversVertices ==
    pc \in {"build", "done"} =>
        \A f \in Elems(r_tree) : \A zi \in 1..Len(options.zoom_levels) :
            LET z == options.zoom_levels[zi]
            IN  \A x, y \in 0..(Pow2(z) - 1) :
                    (f.geometry.kind = "LineString" /\ HasVertexInside(f, TileId(x, y, z)))
                        => TileId(x, y, z) \in Elems(tiles_to_calculate)

\* C5: no returned tile and no tile of the archive has zero features.
C5_NoEmptyTile ==
    /\ \A i \in 1..Len(results) : results[i].tile.some => Len(results[i].tile.layer) >= 1
    /\ \A k \in 1..Len(Collect(results)) : Len(Collect(results)[k].layer) >= 1
    /\ \A k \in 1..Len(pmtiles.tiles) : Len(pmtiles.tiles[k].layer) >= 1

\* A finished run in which some planned tile returned nothing and the
\* archive holds the others.
C5_Witness ==
    /\ pc = "done"
    /\ \E i \in 1..Len(results) : ~results[i].tile.some
    /\ Len(pmtiles.tiles) >= 1
    /\ Len(pmtiles.tiles) < Len(tiles_to_calculate)

\* C6 as stated: a record without geometry makes the run end with an error
\* value returned to the caller, with no index, tile or archive produced.
C6_MissingGeometryIsError ==
    ((\E k \in 1..Len(input) : input[k].geometry.kind = "None") /\ pc # "load") =>
        /\ outcome = "err"
        /\ r_tree = <<>>
        /\ results = <<>>
        /\ pmtiles = NoArchive

DistinctZooms == NoDuplicates(options.zoom_levels)

PlannedAndBuiltOnce ==
    /\ NoDuplicates(tiles_to_calculate)
    /\ NoDuplicates([k \in 1..Len(pmtiles.tiles) |-> pmtiles.tiles[k].id])
    /\ progress.bars = Cardinality(BuiltTiles)
    /\ (pc = "done" => progress.bars = Len(tiles_to_calculate))

\* C7 as stated: for any zoom-level sequence each TileCoordinate is planned
\* once and built once, and no two archive tiles share an identifier.
C7_UniqueTilesAnyZooms == PlannedAndBuiltOnce

\* C7 amended: the same, for a zoom-level sequence that names no level twice.
C7_UniqueTilesDistinctZooms == DistinctZooms => PlannedAndBuiltOnce

\* A finished run over two different zoom levels whose archive holds tiles of
\* both.
C7_Witness ==
    /\ pc = "done"
    /\ DistinctZooms
    /\ \E a, b \in 1..Len(pmtiles.tiles) : pmtiles.tiles[a].id[1] # pmtiles.tiles[b].id[1]

InRange(t) == t.x >= 0 /\ t.x < Pow2(t.z) /\ t.y >= 0 /\ t.y < Pow2(t.z)

OutOfRangeComputed ==
    \E t \in Elems(AllTriples(bbox, options.zoom_levels, 1)) : ~InRange(t)

\* C8: every TileCoordinate the planner emits has 0 <= x, y < 2^z, and when
\* an index out of that range is computed no tile build runs.
C8_EmittedInRange ==
    /\ \A t \in Elems(tiles_to_calculate) : InRange(t)
    /\ (pc # "load" /\ OutOfRangeComputed) =>
           results = <<>> /\ progress.bars = 0 /\ pc \in {"plan", "aborted"}

\* Planning stopped with an error at an out-of-range index after pushing
\* tiles that are in range.
C8_Witness ==
    /\ pc = "aborted"
    /\ outcome = "err"
    /\ OutOfRangeComputed
    /\ Len(tiles_to_calculate) >= 1

\* The archive a run over the planned tiles one after the other produces.
ExpectedTiles ==
    AddTiles(Collect([k \in 1..Len(tiles_to_calculate) |->
        make_tile(tiles_to_calculate[k],
                  locate_in_envelope_intersecting(r_tree, tiles_to_calculate[k]),
                  options)]))

FirstTooLarge(inc) ==
    /\ options.limit_size_bytes.some
    /\ Len(inc) >= 1
    /\ EncodedLen(inc[1]) > options.limit_size_bytes.v

\* C10: when the first candidate that passes the inclusion test is larger
\* than the budget on its own, make_tile stops at it and returns no tile, and
\* the archive holds no tile for that coordinate.
C10_FirstTooLargeNoTile ==
    options.limit_size_bytes.some =>
        \A i \in BuiltTiles :
            LET inc == Included(i)
                t == tiles_to_calculate[i]
            IN  FirstTooLarge(inc) =>
                    /\ ~results[i].tile.some
                    /\ results[i].pos = PositionIn(Ordered(i), inc[1].idx)
                    /\ pc = "done" =>
                           \A k \in 1..Len(pmtiles.tiles) :
                               pmtiles.tiles[k].id # get_tile_id(t.z, t.x, t.y)

\* A built tile whose first included candidate exceeds the budget while a
\* second included candidate would have fitted.
C10_Witness ==
    \E i \in BuiltTiles :
        /\ FirstTooLarge(Included(i))
        /\ Len(Included(i)) >= 2
        /\ EncodedLen(Included(i)[2]) <= options.limit_size_bytes.v

====
